---- MODULE Spec2Model ----
(***************************************************************************)
(* A model of the counter CLI of midnightntwrk/example-counter:            *)
(*   counter-cli/src/api.ts  - wallet provider (balanceTx / submitTx),     *)
(*                             the waits on the wallet state stream, the   *)
(*                             dust status and the dust registration;      *)
(*   counter-cli/src/cli.ts  - the interactive session (run, buildWallet,  *)
(*                             handleDustRegistration, mainLoop, cleanup). *)
(* The wallet facade, the proof server, the indexer and the user are the   *)
(* environment: their answers are nondeterministic choices.                *)
(***************************************************************************)
EXTENDS Integers, Sequences, FiniteSets, TLC

\* ------------------------------------------------------------------ bounds
MaxDust == 1        \* largest dust balance the wallet stream reports
MaxCoins == 1       \* most unshielded coins in a wallet state
MaxBal == 1         \* largest shielded native-token balance
MaxOps == 2         \* most contract transactions started in one session
MaxClock == 1       \* the clock readings are 0..MaxClock steps of ClockStepMs

\* ------------------------------------------------------- program constants
SyncThrottleMs == 5000               \* Rx.throttleTime(5_000)
TickMs == SyncThrottleMs             \* one model tick is the shortest window
FundsThrottleMs == 10000             \* Rx.throttleTime(10_000)
DustTimeoutMs == 60000               \* Rx.timeout(60_000)
FallbackTimeoutMs == 30000           \* Rx.timeout(30_000)
DefaultTtlMs == 30 * 60 * 1000       \* 30 min default TTL
ClockStepMs == 15 * 60 * 1000        \* granularity of the modelled Date.now()

Ticks(ms) == ms \div TickMs

Callers == {"c1", "c2"}
CliCaller == "c1"

\* ------------------------------------------------------------ wallet state
\* One snapshot of WalletFacade.state(): the fields the program reads.
\* coins is state.unshielded.availableCoins, each coin reduced to its
\* meta.registeredForDustGeneration flag; unshielded and shielded are the
\* balances[nativeToken] of the two parts (0 where the entry is undefined).
CoinSeqs == UNION {[1..n -> BOOLEAN] : n \in 0..MaxCoins}

WalletStates ==
    [isSynced : BOOLEAN,
     dustPresent : BOOLEAN,
     dust : 0..MaxDust,
     coins : CoinSeqs,
     unshielded : 0..MaxBal,
     shielded : 0..MaxBal]

\* state.unshielded?.balances[nativeToken] ?? 0n
UnshieldedBalanceOf(s) == s.unshielded
\* state.shielded?.balances[nativeToken] ?? 0n
ShieldedBalanceOf(s) == s.shielded

\* state.dust?.walletBalance(new Date()) ?? 0n
DustBalanceOf(s) == IF s.dustPresent THEN s.dust ELSE 0

\* a wallet state without dust part carries no balance: normal form
NormalState(s) == s.dustPresent \/ s.dust = 0
EmittedStates == {s \in WalletStates : NormalState(s)}
ZeroState ==
    [isSynced |-> FALSE, dustPresent |-> FALSE, dust |-> 0, coins |-> <<>>,
     unshielded |-> 0, shielded |-> 0]

\* ------------------------------------------------------------ error messages
\* Messages are character sequences so that String.includes is computed.
Msg139 == <<"c", "o", "d", "e", " ", "1", "3", "9">>
MsgInvalid == <<"I", "n", "v", "a", "l", "i", "d", " ", "T", "r", "a", "n", "s", "a", "c", "t", "i", "o", "n">>
MsgTimeout == <<"T", "i", "m", "e", "o", "u", "t", " ", "h", "a", "s", " ", "o", "c", "c", "u", "r", "r", "e", "d">>
MsgOther == <<"n", "e", "t", " ", "d", "o", "w", "n">>
Pat139 == <<"1", "3", "9">>

IncludesAtStart(msg, pat) ==
    /\ Len(pat) <= Len(msg)
    /\ \A j \in 1..Len(pat) : msg[j] = pat[j]

\* String.prototype.includes
Includes(msg, pat) ==
    \E i \in 0..(Len(msg) - Len(pat)) :
        \A j \in 1..Len(pat) : msg[i + j] = pat[j]

\* ------------------------------------------------------------------- waits
\* A wait is Rx.firstValueFrom over wallet.state() piped through
\* throttleTime / filter / timeout.  wallet.state() replays its latest
\* snapshot to a new subscriber.  Kinds:
\*   first    firstValueFrom(wallet.state())                 (displayWalletBalances)
\*   synced   filter(isSynced)                               (checkDustStatus, ...)
\*   sync     throttleTime(5 s), filter(isSynced)            (waitForSync)
\*   funds    throttleTime(10 s), filter(isSynced), balance > 0   (waitForFunds)
\*   dust     throttleTime(5 s), filter(dust > 0), timeout(60 s)
\*   fallback throttleTime(5 s), filter(dust > 0), timeout(30 s)
ThrottleOf(kind) ==
    CASE kind = "sync" -> Ticks(SyncThrottleMs)
      [] kind = "funds" -> Ticks(FundsThrottleMs)
      [] kind \in {"dust", "fallback"} -> Ticks(SyncThrottleMs)
      [] OTHER -> 0

HasTimeout(kind) == kind \in {"dust", "fallback"}

TimeoutOf(kind) ==
    CASE kind = "dust" -> Ticks(DustTimeoutMs)
      [] kind = "fallback" -> Ticks(FallbackTimeoutMs)
      [] OTHER -> 0

\* the filter stage(s) of the pipe
Qualifies(kind, s) ==
    CASE kind = "first" -> TRUE
      [] kind \in {"synced", "sync"} -> s.isSynced
      [] kind = "funds" -> s.isSynced /\ UnshieldedBalanceOf(s) + ShieldedBalanceOf(s) > 0
      [] kind \in {"dust", "fallback"} -> DustBalanceOf(s) > 0
      [] OTHER -> FALSE

NoWait ==
    [kind |-> "none", status |-> "idle", throttleLeft |-> 0, timeoutLeft |-> 0, snap |-> ZeroState]

NewWait(kind) ==
    [kind |-> kind, status |-> "pending", throttleLeft |-> 0,
     timeoutLeft |-> TimeoutOf(kind), snap |-> ZeroState]

\* One emission s of the wallet stream seen by the wait w: throttleTime lets
\* the leading value through and drops the values of the window it opens.
Deliver(w, s) ==
    IF w.status # "pending" THEN w
    ELSE IF w.throttleLeft > 0 THEN w
    ELSE IF Qualifies(w.kind, s)
         THEN [w EXCEPT !.status = "resolved", !.snap = s, !.throttleLeft = 0, !.timeoutLeft = 0]
         ELSE [w EXCEPT !.throttleLeft = ThrottleOf(w.kind)]

\* One tick of time seen by the wait w: the throttle window runs down, and so
\* does Rx.timeout, which errors the wait when it reaches 0.
Elapse(w) ==
    LET t == IF w.throttleLeft > 0 THEN w.throttleLeft - 1 ELSE 0
        d == IF HasTimeout(w.kind) THEN w.timeoutLeft - 1 ELSE 0
    IN  IF HasTimeout(w.kind) /\ d = 0
        THEN [w EXCEPT !.status = "timedout", !.throttleLeft = 0, !.timeoutLeft = 0]
        ELSE [w EXCEPT !.throttleLeft = t, !.timeoutLeft = d]

\* ------------------------------------------------------------- dust status
HasSufficientDustGe(dustBalance) == dustBalance >= 0

HasSufficientDust(dustBalance) == dustBalance > 0

UnregisteredNightUtxos(s) == SelectSeq(s.coins, LAMBDA registered : registered = FALSE)

checkDustStatus(s) ==
    [known |-> TRUE,
     dustBalance |-> DustBalanceOf(s),
     unregisteredUtxoCount |-> Len(UnregisteredNightUtxos(s)),
     hasSufficientDust |-> HasSufficientDust(DustBalanceOf(s))]

NoStatus ==
    [known |-> FALSE, dustBalance |-> 0, unregisteredUtxoCount |-> 0, hasSufficientDust |-> FALSE]

\* answer.toLowerCase()
toLowerCase(a) ==
    CASE a = "Y" -> "y"
      [] a = "YES" -> "yes"
      [] a = "Yes" -> "yes"
      [] OTHER -> a

Answers == {"y", "Y", "yes", "n", ""}

\* ---------------------------------------------------------------- variables
VARIABLES
    config,          \* [standalone, docker, envMnemonic]: how run was called
    pc,              \* position of run (cli.ts) in its code
    wait,            \* the firstValueFrom the session is suspended on
    dustStatus,      \* what checkDustStatus returned to handleDustRegistration
    calledUnsynced,  \* checkDustStatus was called while the wallet was unsynced
    reg,             \* the running registerForDustProduction call
    ctx,             \* walletContext !== null in run
    facade,          \* "none" | "started" | "startFailed" | "stopped"
    rli,             \* "open" | "closed"
    docker,          \* "none" | "up" | "down"
    thrown,          \* what the try block of run threw: "none" | "Error" | "other"
    cleanup,         \* the cleanup steps of run's finally attempted so far
    logs,            \* the log lines of interest written so far
    task,            \* per caller: the balanceTx / submitTx call it runs
    round,           \* the counter contract's ledger value
    ops,             \* contract transactions started so far
    now,             \* last reading of Date.now(), in ms
    zeroFee          \* history: checkDustStatus returned hasSufficientDust = false
                     \* and no snapshot read since had a positive dust balance

\* the key material held in the wallet context
VARIABLES
    keys             \* "none" | "held" | "zeroed": shieldedSecretKeys, dustSecretKey,
                     \* unshieldedKeystore of the WalletContext

\* the wallet state stream as the pending wait saw it
VARIABLES
    missed           \* the latest emission qualified for the pending wait and
                     \* throttleTime dropped it

\* the voting CLI (voting-cli.ts, voting-api.ts)
VARIABLES
    vpc,             \* position of the voting session in its code
    votingState,     \* mainLoop's VotingSystemState
    call,            \* the locals of the running voting-api call
    results,         \* what getVotingResults returned to displayVotingResults
    vlog,            \* the error message the last menu choice logged
    ledger,          \* per contract address: the counter's round, or NoContract
    myVotes,         \* history: vote increments this participant has submitted
    sessions,        \* voting sessions started so far
    vrun             \* run of voting-cli.ts: [docker, wallet, cleanup]

votingVars == <<vpc, votingState, call, results, vlog, ledger, myVotes, sessions, vrun>>

vars == <<config, pc, wait, dustStatus, calledUnsynced, reg, ctx, facade, rli, docker,
          thrown, cleanup, logs, task, round, ops, now, zeroFee, keys, missed, votingVars>>

\* error is the message of the error registerForDustProduction caught, if any
\* stages: the wallet calls made on the registration transaction, in order
NoReg == [submits |-> 0, result |-> "none", error |-> <<>>, stages |-> <<>>]

\* ------------------------------------------------------------ transactions
\* The value handed from one stage of a pipeline run to the next.
Val(kind, run) == [kind |-> kind, run |-> run]
NoVal == Val("none", 0)
NoError == [stage |-> "none", kind |-> "none"]

IdleTask ==
    [pc |-> "idle", kind |-> "none", run |-> 0, ttlArg |-> <<>>, ttl |-> 0, dustAtCall |-> 0,
     val |-> NoVal, trace |-> <<>>, error |-> NoError]

ClockReadings == {k * ClockStepMs : k \in 0..MaxClock}
\* the optional ttl argument of balanceTx: <<>> is undefined
TtlArgs == {<<>>} \cup {<<t>> : t \in ClockReadings}

\* ------------------------------------------------------------ voting state
MaxVotes == 2       \* largest counter value of a vote contract
MaxSessions == 2    \* most voting sessions run one after the other

Options == <<"yes", "no", "abstain">>
\* the contract addresses of the chain, in the order deployContract hands them out
Addresses == <<"a1", "a2", "a3">>
AddressSet == {Addresses[i] : i \in DOMAIN Addresses}
\* what can stand in an address field: null (after no call), the empty string
\* (typed at join), a string that is no contract address, an address
NullAddress == "null"
EmptyAddress == ""
BadAddress == "zz"
NoContract == -1

\* JavaScript truthiness of an address field: null and '' are falsy
Truthy(a) == a # NullAddress /\ a # EmptyAddress

NoVotingState ==
    [yes |-> NullAddress, no |-> NullAddress, abstain |-> NullAddress,
     hasVoted |-> FALSE, myVote |-> "null"]

NoCall == [op |-> "none", vote |-> "null", address |-> NullAddress, deployed |-> <<>>,
           yes |-> 0, no |-> 0, abstain |-> 0]
NoResults == [known |-> FALSE, yes |-> 0, no |-> 0, abstain |-> 0, total |-> 0]

\* no voting session is running
\* run of voting-cli.ts before anything happened: env undefined, no wallet
\* built, no cleanup step attempted
NoVotingRun == [docker |-> "none", wallet |-> FALSE, cleanup |-> <<>>]

VotingOff ==
    /\ vpc = "off"
    /\ vrun = NoVotingRun
    /\ votingState = NoVotingState
    /\ call = NoCall
    /\ results = NoResults
    /\ vlog = "none"
    /\ ledger = [a \in AddressSet |-> NoContract]
    /\ myVotes = 0
    /\ sessions = 0

\* ---------------------------------------------------------------- initial
Configs ==
    {c \in [standalone : BOOLEAN, docker : BOOLEAN, envMnemonic : BOOLEAN] :
        c.standalone => ~c.envMnemonic}

Init ==
    /\ config \in Configs
    /\ pc = "run_start"
    /\ wait = NoWait
    /\ dustStatus = NoStatus
    /\ calledUnsynced = FALSE
    /\ reg = NoReg
    /\ ctx = FALSE
    /\ facade = "none"
    /\ rli = "open"
    /\ docker = "none"
    /\ thrown = "none"
    /\ cleanup = <<>>
    /\ logs = {}
    /\ task = [c \in Callers |-> IdleTask]
    /\ round = 0
    /\ ops = 0
    /\ now = 0
    /\ zeroFee = FALSE
    /\ keys = "none"
    /\ missed = FALSE
    /\ VotingOff

\* ------------------------------------------------------------- environment
\* The wallet state stream.  Only a subscriber sees an emission, so the model
\* keeps no snapshot between the waits: a pending wait is delivered each
\* emission, and a new subscriber is replayed the latest snapshot, which is
\* any state the facade may have reached by then.

\* The fields of a snapshot that a wait of the given kind reads, in its
\* filter or in the code that consumes its result; the dust part is kept for
\* every kind.
ReadFields(kind) ==
    CASE kind = "sync" -> {"isSynced"}
      [] kind = "first" -> {"unshielded", "shielded"}
      [] kind = "funds" -> {"isSynced", "unshielded", "shielded"}
      [] kind = "synced" -> {"isSynced", "coins"}
      [] OTHER -> {}

\* the snapshot s as a wait of the given kind sees it: the fields it does not
\* read are left at their zero value
Seen(kind, s) ==
    [isSynced |-> IF "isSynced" \in ReadFields(kind) THEN s.isSynced ELSE ZeroState.isSynced,
     dustPresent |-> s.dustPresent,
     dust |-> s.dust,
     coins |-> IF "coins" \in ReadFields(kind) THEN s.coins ELSE ZeroState.coins,
     unshielded |-> IF "unshielded" \in ReadFields(kind) THEN s.unshielded
                    ELSE ZeroState.unshielded,
     shielded |-> IF "shielded" \in ReadFields(kind) THEN s.shielded ELSE ZeroState.shielded]

EmittedTo(kind) == {Seen(kind, s) : s \in EmittedStates}

\* zeroFee after the stream has shown the snapshot s
StillZeroFee(z, s) == z /\ DustBalanceOf(s) = 0

\* The wallet facade emits the snapshot s; the pending wait sees it.
WalletEmit ==
    /\ wait.status = "pending"
    /\ \E s \in EmittedTo(wait.kind) :
        /\ wait' = Deliver(wait, s)
        /\ zeroFee' = StillZeroFee(zeroFee, s)
        /\ missed' = (wait'.status = "pending" /\ Qualifies(wait.kind, s))
    /\ UNCHANGED <<config, pc, dustStatus, calledUnsynced, reg, ctx, facade, rli, docker,
                   thrown, cleanup, logs, task, round, ops, now>>
    /\ UNCHANGED <<keys, votingVars>>

\* Time passes for the pending wait (throttle window, Rx.timeout).
Tick ==
    /\ wait.status = "pending"
    /\ wait.throttleLeft > 0 \/ HasTimeout(wait.kind)
    /\ wait' = Elapse(wait)
    /\ missed' = (missed /\ wait'.status = "pending")
    /\ UNCHANGED <<config, pc, dustStatus, calledUnsynced, reg, ctx, facade, rli, docker,
                   thrown, cleanup, logs, task, round, ops, now, zeroFee>>
    /\ UNCHANGED <<keys, votingVars>>

\* wallet.state() errors, or completes with no qualifying value: firstValueFrom
\* rejects the pending wait
WalletStateError ==
    /\ wait.status = "pending"
    /\ wait' = [wait EXCEPT !.status = "errored", !.throttleLeft = 0, !.timeoutLeft = 0]
    /\ missed' = FALSE
    /\ UNCHANGED <<config, pc, dustStatus, calledUnsynced, reg, ctx, facade, rli, docker,
                   thrown, cleanup, logs, task, round, ops, now, zeroFee>>
    /\ UNCHANGED <<keys, votingVars>>

\* a new subscription of the given kind, replayed the latest snapshot
SubscribeFrom(kind, z) ==
    \E s \in EmittedTo(kind) :
        /\ wait' = Deliver(NewWait(kind), s)
        /\ zeroFee' = StillZeroFee(z, s)

Subscribe(kind) == SubscribeFrom(kind, zeroFee)

\* ------------------------------------------------------- cli.ts: run, part 1
\* run up to the try block: the docker environment is brought up if given,
\* and the ports of a StandaloneConfig are mapped.  dockerEnv.up() and
\* mapContainerPort are outside the try: when one throws, run rejects with no
\* cleanup step attempted
RunStart ==
    /\ pc = "run_start"
    /\ IF ~config.docker
       THEN pc' = "buildWallet" /\ UNCHANGED docker
       ELSE \/ /\ docker' = "up"
               /\ pc' = "buildWallet"
            \/ /\ UNCHANGED docker
               /\ pc' = "rejected"
            \/ /\ config.standalone
               /\ docker' = "up"
               /\ pc' = "rejected"
    /\ UNCHANGED <<config, wait, dustStatus, calledUnsynced, reg, ctx, facade, rli,
                   thrown, cleanup, logs, task, round, ops, now, zeroFee>>
    /\ UNCHANGED <<keys, missed, votingVars>>

\* the try block threw e: run's catch, then finally
Throw(kind) ==
    /\ thrown' = kind
    /\ pc' = "finally_rli"

\* buildWallet: the standalone configuration uses the genesis seed
BuildWalletStandalone ==
    /\ pc = "buildWallet"
    /\ config.standalone
    /\ pc' = "initWalletWithSeed"
    /\ UNCHANGED <<config, wait, dustStatus, calledUnsynced, reg, ctx, facade, rli,
                   docker, thrown, cleanup, logs, task, round, ops, now, zeroFee>>
    /\ UNCHANGED <<keys, missed, votingVars>>

Choices == {"1", "2", "3", "4", "x"}

\* buildWallet: the wallet menu; validMnemonic is what bip39.validateMnemonic says
BuildWalletChoice ==
    /\ pc = "buildWallet"
    /\ ~config.standalone
    /\ \E choice \in Choices, validMnemonic \in BOOLEAN :
        CASE choice = "1" ->
                /\ pc' = "initWalletWithSeed"
                /\ UNCHANGED thrown
          [] choice = "2" \/ (choice = "3" /\ config.envMnemonic) ->
                IF validMnemonic
                THEN pc' = "initWalletWithSeed" /\ UNCHANGED thrown
                ELSE Throw("Error")
          [] choice = "4" ->
                /\ pc' = "finally_rli"
                /\ UNCHANGED thrown
          [] OTHER ->
                UNCHANGED <<pc, thrown>>
    /\ UNCHANGED <<config, wait, dustStatus, calledUnsynced, reg, ctx, facade, rli,
                   docker, cleanup, logs, task, round, ops, now, zeroFee>>
    /\ UNCHANGED <<keys, missed, votingVars>>

\* initWalletWithSeed: key derivation may fail (an Error); else the keys are
\* held, the facade is constructed and facade.start awaited: it rejects (with
\* an Error or another value), or the facade is started and
\* buildWalletAndWaitForFunds / buildWalletFromHexSeed go on to waitForSync
initWalletWithSeed ==
    /\ pc = "initWalletWithSeed"
    /\ \E seedOk \in BOOLEAN :
        IF seedOk
        THEN /\ keys' = "held"
             /\ \/ /\ facade' = "started"
                   /\ pc' = "waitForSync"
                   /\ Subscribe("sync")
                   /\ UNCHANGED thrown
                \/ /\ facade' = "startFailed"
                   /\ \E e \in {"Error", "other"} : Throw(e)
                   /\ UNCHANGED <<wait, zeroFee>>
        ELSE /\ Throw("Error")
             /\ UNCHANGED <<facade, keys, wait, zeroFee>>
    /\ UNCHANGED <<config, dustStatus, calledUnsynced, reg, ctx, rli, docker, cleanup, logs,
                   task, round, ops, now>>
    /\ UNCHANGED <<missed, votingVars>>

\* await waitForSync(...) returned: displayWalletBalances reads the stream
waitForSync ==
    /\ pc = "waitForSync"
    /\ wait.status = "resolved"
    /\ pc' = "displayWalletBalances"
    /\ Subscribe("first")
    /\ UNCHANGED <<config, dustStatus, calledUnsynced, reg, ctx, facade, rli, docker,
                   thrown, cleanup, logs, task, round, ops, now>>
    /\ UNCHANGED <<keys, missed, votingVars>>

\* buildWallet returned the context to run; handleDustRegistration starts:
\* checkDustStatus awaits a synced snapshot
EnterHandleDustRegistration ==
    /\ ctx' = TRUE
    /\ pc' = "checkDustStatus"
    /\ Subscribe("synced")
    /\ calledUnsynced' = (wait'.status = "pending")

\* displayWalletBalances returned: unshielded === 0n waits for funds, else the
\* wallet context is returned to run
displayWalletBalances ==
    /\ pc = "displayWalletBalances"
    /\ wait.status = "resolved"
    /\ IF UnshieldedBalanceOf(wait.snap) = 0
       THEN /\ pc' = "waitForFunds"
            /\ Subscribe("funds")
            /\ UNCHANGED <<ctx, calledUnsynced>>
       ELSE EnterHandleDustRegistration
    /\ UNCHANGED <<config, dustStatus, reg, facade, rli, docker, thrown, cleanup, logs, task,
                   round, ops, now>>
    /\ UNCHANGED <<keys, missed, votingVars>>

\* await waitForFunds(...) returned: balances are displayed again
waitForFunds ==
    /\ pc = "waitForFunds"
    /\ wait.status = "resolved"
    /\ pc' = "displayWalletBalancesAgain"
    /\ Subscribe("first")
    /\ UNCHANGED <<config, dustStatus, calledUnsynced, reg, ctx, facade, rli, docker,
                   thrown, cleanup, logs, task, round, ops, now>>
    /\ UNCHANGED <<keys, missed, votingVars>>

displayWalletBalancesAgain ==
    /\ pc = "displayWalletBalancesAgain"
    /\ wait.status = "resolved"
    /\ EnterHandleDustRegistration
    /\ UNCHANGED <<config, dustStatus, reg, facade, rli, docker, thrown, cleanup, logs, task,
                   round, ops, now>>
    /\ UNCHANGED <<keys, missed, votingVars>>

\* a wait of buildWalletAndWaitForFunds / buildWalletFromHexSeed rejected: the
\* rejection leaves buildWallet, no WalletContext is returned to run
buildWalletRejected ==
    /\ pc \in {"waitForSync", "displayWalletBalances", "waitForFunds",
               "displayWalletBalancesAgain"}
    /\ wait.status = "errored"
    /\ \E e \in {"Error", "other"} : Throw(e)
    /\ wait' = NoWait
    /\ UNCHANGED <<config, dustStatus, calledUnsynced, reg, ctx, facade, rli, docker,
                   cleanup, logs, task, round, ops, now, zeroFee>>
    /\ UNCHANGED <<keys, missed, votingVars>>

\* the wait of checkDustStatus or of createWalletAndMidnightProvider rejected:
\* neither is inside a try of its own, run's catch gets the rejection
syncedWaitRejected ==
    /\ pc \in {"checkDustStatus", "configureProviders"}
    /\ wait.status = "errored"
    /\ \E e \in {"Error", "other"} : Throw(e)
    /\ wait' = NoWait
    /\ UNCHANGED <<config, dustStatus, calledUnsynced, reg, ctx, facade, rli, docker,
                   cleanup, logs, task, round, ops, now, zeroFee>>
    /\ UNCHANGED <<keys, missed, votingVars>>

\* ------------------------------------------ cli.ts: handleDustRegistration
EnterConfigureProvidersUnfiltered(z) ==
    /\ pc' = "configureProviders"
    /\ SubscribeFrom("first", z)

\* handleDustRegistration returned: run awaits configureProviders, whose
\* createWalletAndMidnightProvider awaits a synced snapshot
EnterConfigureProviders(z) ==
    /\ pc' = "configureProviders"
    /\ SubscribeFrom("synced", z)

\* checkDustStatus returned; handleDustRegistration prompts if there are
\* unregistered UTXOs, else only logs
handleDustRegistration ==
    /\ pc = "checkDustStatus"
    /\ wait.status = "resolved"
    /\ dustStatus' = checkDustStatus(wait.snap)
    /\ IF dustStatus'.unregisteredUtxoCount > 0
       THEN /\ pc' = "askRegister"
            /\ wait' = NoWait
            /\ zeroFee' = ~dustStatus'.hasSufficientDust
       ELSE EnterConfigureProviders(~dustStatus'.hasSufficientDust)
    /\ UNCHANGED <<config, calledUnsynced, reg, ctx, facade, rli, docker, thrown, cleanup,
                   logs, task, round, ops, now>>
    /\ UNCHANGED <<keys, missed, votingVars>>

\* the answer to 'Would you like to register for dust production? (y/n)'
askRegister ==
    /\ pc = "askRegister"
    /\ \E answer \in Answers :
        IF toLowerCase(answer) = "y" \/ toLowerCase(answer) = "yes"
        THEN /\ pc' = "registerForDustProduction"
             /\ Subscribe("synced")
             /\ reg' = NoReg
        ELSE /\ EnterConfigureProviders(zeroFee)
             /\ UNCHANGED reg
    /\ UNCHANGED <<config, dustStatus, calledUnsynced, ctx, facade, rli, docker, thrown,
                   cleanup, logs, task, round, ops, now>>
    /\ UNCHANGED <<keys, missed, votingVars>>

\* registerForDustProduction returned result: handleDustRegistration logs
\* success after the await, whatever was returned
RegReturned(result) ==
    /\ reg' = [reg EXCEPT !.result = result]
    /\ logs' = logs \cup {"Dust registration successful!"}
    /\ EnterConfigureProviders(zeroFee)

\* what handleDustRegistration's catch logs: the failure if the caught value
\* is an Error, nothing otherwise
CatchLogs(isError) == IF isError THEN {"Dust registration failed"} ELSE {}

\* registerForDustProduction threw: handleDustRegistration's catch
RegThrew(isError) ==
    /\ reg' = [reg EXCEPT !.result = "thrown"]
    /\ logs' = logs \cup CatchLogs(isError)
    /\ EnterConfigureProviders(zeroFee)

\* ------------------------------------- api.ts: registerForDustProduction
registerForDustProductionWithoutCoinCheck ==
    /\ pc = "registerForDustProduction"
    /\ wait.status = "resolved"
    /\ pc' = "registerNightUtxos"
    /\ wait' = NoWait
    /\ UNCHANGED <<reg, logs, zeroFee>>
    /\ UNCHANGED <<config, dustStatus, calledUnsynced, ctx, facade, rli, docker, thrown,
                   cleanup, task, round, ops, now>>
    /\ UNCHANGED <<keys, missed, votingVars>>

\* the synced snapshot arrived: no coins returns false, else the recipe is built
registerForDustProduction ==
    /\ pc = "registerForDustProduction"
    /\ wait.status = "resolved"
    /\ IF Len(wait.snap.coins) = 0
       THEN RegReturned("false")
       ELSE /\ pc' = "registerNightUtxos"
            /\ wait' = NoWait
            /\ UNCHANGED <<reg, logs, zeroFee>>
    /\ UNCHANGED <<config, dustStatus, calledUnsynced, ctx, facade, rli, docker, thrown,
                   cleanup, task, round, ops, now>>
    /\ UNCHANGED <<keys, missed, votingVars>>

\* wallet.registerNightUtxosForDustGeneration settled: its recipe's transaction
\* is handed to wallet.finalizeTransaction
registerNightUtxos ==
    /\ pc = "registerNightUtxos"
    /\ \E ok \in BOOLEAN :
        IF ok
        THEN /\ pc' = "finalizeTransaction"
             /\ reg' = [reg EXCEPT !.stages = <<"register", "finalize">>]
             /\ UNCHANGED <<logs, wait, zeroFee>>
        ELSE \E isError \in BOOLEAN : RegThrew(isError)
    /\ UNCHANGED <<config, dustStatus, calledUnsynced, ctx, facade, rli, docker, thrown,
                   cleanup, task, round, ops, now>>
    /\ UNCHANGED <<keys, missed, votingVars>>

\* wallet.finalizeTransaction settled: the registration is submitted
finalizeTransaction ==
    /\ pc = "finalizeTransaction"
    /\ \E ok \in BOOLEAN :
        IF ok
        THEN /\ pc' = "submitRegistration"
             /\ reg' = [reg EXCEPT !.submits = @ + 1, !.stages = Append(@, "submit")]
             /\ UNCHANGED <<logs, wait, zeroFee>>
        ELSE \E isError \in BOOLEAN : RegThrew(isError)
    /\ UNCHANGED <<config, dustStatus, calledUnsynced, ctx, facade, rli, docker, thrown,
                   cleanup, task, round, ops, now>>
    /\ UNCHANGED <<keys, missed, votingVars>>

\* throw error: handleDustRegistration's catch gets the caught value itself
Rethrow(msg, isError) ==
    /\ reg' = [reg EXCEPT !.result = "thrown", !.error = msg]
    /\ logs' = logs \cup CatchLogs(isError)
    /\ EnterConfigureProviders(zeroFee)

RegisterCatchResubmit(msg, isError) ==
    IF Includes(msg, Pat139) \/ Includes(msg, MsgInvalid)
    THEN /\ pc' = "submitRegistration"
         /\ reg' = [reg EXCEPT !.submits = @ + 1, !.error = msg]
         /\ wait' = NoWait
         /\ UNCHANGED <<logs, zeroFee>>
    ELSE Rethrow(msg, isError)

\* the catch of registerForDustProduction for a caught value whose message
\* (error.message of an Error, String(error) otherwise) is msg
RegisterCatch(msg, isError) ==
    IF Includes(msg, Pat139) \/ Includes(msg, MsgInvalid)
    THEN /\ pc' = "fallbackDustWait"
         /\ Subscribe("fallback")
         /\ reg' = [reg EXCEPT !.error = msg]
         /\ UNCHANGED logs
    ELSE Rethrow(msg, isError)

SubmitErrors == {Msg139, MsgInvalid, MsgOther}

\* wallet.submitTransaction(finalizedTx) settled: a tx id, or an error
submitRegistration ==
    /\ pc = "submitRegistration"
    /\ \/ /\ pc' = "dustWait"
          /\ Subscribe("dust")
          /\ UNCHANGED <<reg, logs>>
       \/ \E msg \in SubmitErrors, isError \in BOOLEAN : RegisterCatch(msg, isError)
    /\ UNCHANGED <<config, dustStatus, calledUnsynced, ctx, facade, rli, docker, thrown,
                   cleanup, task, round, ops, now>>
    /\ UNCHANGED <<keys, missed, votingVars>>

\* the 60 s wait for dust ended: with dust observed, or with Rx's TimeoutError
dustWait ==
    /\ pc = "dustWait"
    /\ \/ /\ wait.status = "resolved"
          /\ RegReturned("true")
       \/ /\ wait.status = "timedout"
          /\ RegisterCatch(MsgTimeout, TRUE)
    /\ UNCHANGED <<config, dustStatus, calledUnsynced, ctx, facade, rli, docker, thrown,
                   cleanup, task, round, ops, now>>
    /\ UNCHANGED <<keys, missed, votingVars>>

fallbackDustWaitAlwaysTrue ==
    /\ pc = "fallbackDustWait"
    /\ wait.status \in {"resolved", "timedout"}
    /\ RegReturned("true")
    /\ UNCHANGED <<config, dustStatus, calledUnsynced, ctx, facade, rli, docker, thrown,
                   cleanup, task, round, ops, now>>
    /\ UNCHANGED <<keys, missed, votingVars>>

\* the 30 s wait of the error-139 branch ended
fallbackDustWait ==
    /\ pc = "fallbackDustWait"
    /\ \/ /\ wait.status = "resolved"
          /\ RegReturned("true")
       \/ /\ wait.status = "timedout"
          /\ RegReturned("false")
    /\ UNCHANGED <<config, dustStatus, calledUnsynced, ctx, facade, rli, docker, thrown,
                   cleanup, task, round, ops, now>>
    /\ UNCHANGED <<keys, missed, votingVars>>

\* a wait of registerForDustProduction rejected: the first one is outside the
\* try, the dust wait is inside it, the 30 s wait is inside the inner try
registrationWaitRejected ==
    /\ wait.status = "errored"
    /\ \/ /\ pc = "registerForDustProduction"
          /\ \E isError \in BOOLEAN : RegThrew(isError)
       \/ /\ pc = "dustWait"
          /\ \E msg \in SubmitErrors, isError \in BOOLEAN : RegisterCatch(msg, isError)
       \/ /\ pc = "fallbackDustWait"
          /\ RegReturned("false")
    /\ UNCHANGED <<config, dustStatus, calledUnsynced, ctx, facade, rli, docker, thrown,
                   cleanup, task, round, ops, now>>
    /\ UNCHANGED <<keys, missed, votingVars>>

\* ------------------------------------- api.ts: balanceTx / submitTx (provider)
Stage(name, input) == [stage |-> name, input |-> input]

TxTtlAlwaysDefault(ttlArg, dateNow) == dateNow + DefaultTtlMs

\* const txTtl = ttl ?? new Date(Date.now() + 30 * 60 * 1000)
TxTtl(ttlArg, dateNow) == IF ttlArg = <<>> THEN dateNow + DefaultTtlMs ELSE ttlArg[1]

\* balanceTx(tx, ttl) called as pipeline run number run: the draft is bound and
\* handed to wallet.balanceFinalizedTransaction
BalanceCalled(kind, run, ttlArg, dateNow, dust) ==
    [pc |-> "balancing", kind |-> kind, run |-> run, ttlArg |-> ttlArg,
     ttl |-> TxTtl(ttlArg, dateNow), dustAtCall |-> dust,
     val |-> Val("draft", run),
     trace |-> <<Stage("balance", Val("draft", run))>>,
     error |-> NoError]

\* a stage of task t rejected: the await throws out of balanceTx / submitTx
Failed(t, stage, kind) ==
    [t EXCEPT !.pc = "failed", !.val = NoVal, !.error = [stage |-> stage, kind |-> kind]]

BalanceSettledIgnoringError(t, res) ==
    [t EXCEPT !.pc = "signing",
              !.val = Val("recipe", t.run),
              !.trace = Append(@, Stage("sign", Val("recipe", t.run))),
              !.error = IF res = "ok" THEN NoError ELSE [stage |-> "balance", kind |-> res]]

\* wallet.balanceFinalizedTransaction settled: the recipe goes to signRecipe
BalanceSettled(t, res) ==
    IF res = "ok"
    THEN [t EXCEPT !.pc = "signing",
                   !.val = Val("recipe", t.run),
                   !.trace = Append(@, Stage("sign", Val("recipe", t.run)))]
    ELSE Failed(t, "balance", res)

\* wallet.signRecipe settled: the signed recipe goes to finalizeRecipe
SignSettled(t, res) ==
    IF res = "ok"
    THEN [t EXCEPT !.pc = "finalizing",
                   !.val = Val("signed", t.run),
                   !.trace = Append(@, Stage("finalize", Val("signed", t.run)))]
    ELSE Failed(t, "sign", res)

\* wallet.finalizeRecipe settled: balanceTx returns the finalized transaction
FinalizeSettled(t, res) ==
    IF res = "ok"
    THEN [t EXCEPT !.pc = "balanced", !.val = Val("finalized", t.run)]
    ELSE Failed(t, "finalize", res)

\* a transaction that no balanceTx call of this provider returned
ForeignTx == Val("foreign", 0)

\* the transactions the caller of a call in state t can hand to submitTx
HandedBy(t) == (IF t.pc = "balanced" THEN {t.val} ELSE {}) \cup {ForeignTx}

\* submitTx(tx): wallet.submitTransaction is called with the transaction handed in
SubmitCalled(t, tx) ==
    [t EXCEPT !.pc = "submitting", !.val = tx, !.trace = Append(@, Stage("submit", tx))]

\* wallet.submitTransaction settled: submitTx returns the transaction id
SubmitSettled(t, res) ==
    IF res = "ok"
    THEN [t EXCEPT !.pc = "submitted", !.val = Val("txId", t.run)]
    ELSE Failed(t, "submit", res)

BalanceResults == {"ok", "InsufficientFunds", "InsufficientFee"}
SignResults == {"ok", "SigningDenied", "KeyUnavailable"}
FinalizeResults == {"ok", "FinalizeFailed"}
SubmitResults == {"ok", "Rejected"}

\* the caller c calls balanceTx: Date.now() is read, and the balancer sees the
\* fee capacity dust of the wallet's current funding state
balanceTx(c, kind) ==
    /\ ops < MaxOps
    /\ \E ttlArg \in TtlArgs, dateNow \in ClockReadings, dust \in 0..MaxDust :
        /\ dateNow >= now
        /\ now' = dateNow
        /\ ops' = ops + 1
        /\ zeroFee' = (zeroFee /\ dust = 0)
        /\ task' = [task EXCEPT ![c] = BalanceCalled(kind, ops + 1, ttlArg, dateNow, dust)]

\* the balancer needs fee capacity: it cannot succeed on a wallet without dust
BalanceSettle ==
    /\ \E c \in Callers, res \in BalanceResults :
        /\ task[c].pc = "balancing"
        /\ res = "ok" => task[c].dustAtCall > 0
        /\ task' = [task EXCEPT ![c] = BalanceSettled(task[c], res)]
    /\ UNCHANGED <<config, pc, wait, dustStatus, calledUnsynced, reg, ctx, facade, rli,
                   docker, thrown, cleanup, logs, round, ops, now, zeroFee>>
    /\ UNCHANGED <<keys, missed, votingVars>>

SignSettle ==
    /\ \E c \in Callers, res \in SignResults :
        /\ task[c].pc = "signing"
        /\ task' = [task EXCEPT ![c] = SignSettled(task[c], res)]
    /\ UNCHANGED <<config, pc, wait, dustStatus, calledUnsynced, reg, ctx, facade, rli,
                   docker, thrown, cleanup, logs, round, ops, now, zeroFee>>
    /\ UNCHANGED <<keys, missed, votingVars>>

FinalizeSettle ==
    /\ \E c \in Callers, res \in FinalizeResults :
        /\ task[c].pc = "finalizing"
        /\ task' = [task EXCEPT ![c] = FinalizeSettled(task[c], res)]
    /\ UNCHANGED <<config, pc, wait, dustStatus, calledUnsynced, reg, ctx, facade, rli,
                   docker, thrown, cleanup, logs, round, ops, now, zeroFee>>
    /\ UNCHANGED <<keys, missed, votingVars>>

\* a caller hands a transaction to submitTx: after its balanceTx returned
\* (the transaction balanceTx returned, or another one), or, for a caller of
\* the provider object with no call running, without any balanceTx before it
submitTx ==
    /\ \E c \in Callers :
        \E tx \in HandedBy(task[c]) :
            \/ /\ task[c].pc = "balanced"
               /\ task' = [task EXCEPT ![c] = SubmitCalled(task[c], tx)]
            \/ /\ pc = "provider"
               /\ task[c].pc \in {"idle", "confirmed", "failed"}
               /\ task' = [task EXCEPT ![c] = SubmitCalled(IdleTask, tx)]
    /\ UNCHANGED <<config, pc, wait, dustStatus, calledUnsynced, reg, ctx, facade, rli,
                   docker, thrown, cleanup, logs, round, ops, now, zeroFee>>
    /\ UNCHANGED <<keys, missed, votingVars>>

SubmitSettle ==
    /\ \E c \in Callers, res \in SubmitResults :
        /\ task[c].pc = "submitting"
        /\ task' = [task EXCEPT ![c] = SubmitSettled(task[c], res)]
    /\ UNCHANGED <<config, pc, wait, dustStatus, calledUnsynced, reg, ctx, facade, rli,
                   docker, thrown, cleanup, logs, round, ops, now, zeroFee>>
    /\ UNCHANGED <<keys, missed, votingVars>>

\* the transaction that was handed to wallet.submitTransaction
Submitted(t) == t.trace[Len(t.trace)].input

\* the network includes the submitted transaction in a block, or fails it; the
\* counter changes when the transaction is the deploy or increment that
\* balanceTx returned:
\* finalizedTxData with txId and blockHeight is what callTx / deployContract return
Confirm ==
    /\ \E c \in Callers, ok \in BOOLEAN :
        /\ task[c].pc = "submitted"
        /\ IF ok
           THEN /\ task' = [task EXCEPT ![c].pc = "confirmed"]
                /\ round' = IF Submitted(task[c]) # Val("finalized", task[c].run) THEN round
                             ELSE IF task[c].kind = "increment" THEN round + 1 ELSE 0
           ELSE /\ task' = [task EXCEPT ![c] = Failed(task[c], "confirm", "Rejected")]
                /\ UNCHANGED round
    /\ UNCHANGED <<config, pc, wait, dustStatus, calledUnsynced, reg, ctx, facade, rli,
                   docker, thrown, cleanup, logs, ops, now, zeroFee>>
    /\ UNCHANGED <<keys, missed, votingVars>>

\* ------------------------------------------------- cli.ts: run, part 2
\* createWalletAndMidnightProvider saw a synced snapshot: the providers are
\* built and mainLoop asks the deploy-or-join question
configureProviders ==
    /\ pc = "configureProviders"
    /\ wait.status = "resolved"
    /\ pc' = "deployOrJoin"
    /\ wait' = NoWait
    /\ dustStatus' = NoStatus
    /\ calledUnsynced' = FALSE
    /\ reg' = NoReg
    /\ UNCHANGED <<config, ctx, facade, rli, docker, thrown, cleanup, logs, task, round, ops,
                   now, zeroFee>>
    /\ UNCHANGED <<keys, missed, votingVars>>

\* deployOrJoin: 1 deploys (a contract transaction), 2 joins (a lookup that
\* may throw), 3 returns null and mainLoop returns, else the question again
deployOrJoin ==
    /\ pc = "deployOrJoin"
    /\ \/ /\ balanceTx(CliCaller, "deploy")
          /\ pc' = "awaitDeploy"
          /\ UNCHANGED thrown
       \/ /\ \E found \in BOOLEAN :
                IF found THEN pc' = "mainLoop" /\ UNCHANGED thrown
                ELSE \E e \in {"Error", "other"} : Throw(e)
          /\ UNCHANGED <<task, ops, now, zeroFee>>
       \/ /\ pc' = "finally_rli"
          /\ UNCHANGED <<thrown, task, ops, now, zeroFee>>
       \/ UNCHANGED <<pc, thrown, task, ops, now, zeroFee>>
    /\ UNCHANGED <<config, wait, dustStatus, calledUnsynced, reg, ctx, facade, rli, docker,
                   cleanup, logs, round>>
    /\ UNCHANGED <<keys, missed, votingVars>>

\* mainLoop: 1 increments (a contract transaction), 2 displays the counter
\* (a query that may throw), 3 exits, else the question again
mainLoop ==
    /\ pc = "mainLoop"
    /\ \/ /\ balanceTx(CliCaller, "increment")
          /\ pc' = "awaitIncrement"
          /\ UNCHANGED thrown
       \/ /\ pc' = "displayCounterValue"
          /\ UNCHANGED <<thrown, task, ops, now, zeroFee>>
       \/ /\ pc' = "finally_rli"
          /\ UNCHANGED <<thrown, task, ops, now, zeroFee>>
       \/ UNCHANGED <<pc, thrown, task, ops, now, zeroFee>>
    /\ UNCHANGED <<config, wait, dustStatus, calledUnsynced, reg, ctx, facade, rli, docker,
                   cleanup, logs, round>>
    /\ UNCHANGED <<keys, missed, votingVars>>

\* api.displayCounterValue: getCounterLedgerState's query of the public data
\* provider settled: the value is logged and the menu asked again, or the
\* rejection is thrown through mainLoop to run's catch
displayCounterValue ==
    /\ pc = "displayCounterValue"
    /\ \E answered \in BOOLEAN :
        IF answered THEN pc' = "mainLoop" /\ UNCHANGED thrown
        ELSE \E e \in {"Error", "other"} : Throw(e)
    /\ UNCHANGED <<config, wait, dustStatus, calledUnsynced, reg, ctx, facade, rli, docker,
                   cleanup, logs, task, round, ops, now, zeroFee>>
    /\ UNCHANGED <<keys, missed, votingVars>>

awaitContractTxNotAwaited ==
    /\ pc \in {"awaitDeploy", "awaitIncrement"}
    /\ pc' = "mainLoop"
    /\ UNCHANGED <<config, wait, dustStatus, calledUnsynced, reg, ctx, facade, rli, docker,
                   thrown, cleanup, logs, task, round, ops, now, zeroFee, keys, missed, votingVars>>

\* await api.deploy / api.increment ended: the menu again, or the error of
\* the failed stage thrown through mainLoop to run's catch
awaitContractTx ==
    /\ pc \in {"awaitDeploy", "awaitIncrement"}
    /\ \/ /\ task[CliCaller].pc = "confirmed"
          /\ pc' = "mainLoop"
          /\ UNCHANGED thrown
       \/ /\ task[CliCaller].pc = "failed"
          /\ \E e \in {"Error", "other"} : Throw(e)
    /\ task' = [task EXCEPT ![CliCaller] = IdleTask]
    /\ UNCHANGED <<config, wait, dustStatus, calledUnsynced, reg, ctx, facade, rli, docker,
                   cleanup, logs, round, ops, now, zeroFee>>
    /\ UNCHANGED <<keys, missed, votingVars>>

finallyCloseReadlineAborting ==
    /\ pc = "finally_rli"
    /\ cleanup' = Append(cleanup, "rli")
    /\ \E ok \in BOOLEAN :
        /\ rli' = IF ok THEN "closed" ELSE rli
        /\ pc' = IF ok THEN "finally_wallet" ELSE "done"
    /\ UNCHANGED <<config, wait, dustStatus, calledUnsynced, reg, ctx, facade, docker, thrown,
                   logs, task, round, ops, now, zeroFee>>
    /\ UNCHANGED <<keys, missed, votingVars>>

\* finally: rli.close(), which may throw (logged)
finallyCloseReadline ==
    /\ pc = "finally_rli"
    /\ cleanup' = Append(cleanup, "rli")
    /\ \E ok \in BOOLEAN : rli' = IF ok THEN "closed" ELSE rli
    /\ pc' = "finally_wallet"
    /\ UNCHANGED <<config, wait, dustStatus, calledUnsynced, reg, ctx, facade, docker, thrown,
                   logs, task, round, ops, now, zeroFee>>
    /\ UNCHANGED <<keys, missed, votingVars>>

\* closeWallet: wallet.stop(), whose error is caught and logged
closeWallet ==
    /\ cleanup' = Append(cleanup, "wallet")
    /\ \E ok \in BOOLEAN : facade' = IF ok THEN "stopped" ELSE facade

\* finally: the wallet is closed if run holds a wallet context
finallyCloseWallet ==
    /\ pc = "finally_wallet"
    /\ IF ctx THEN closeWallet ELSE UNCHANGED <<cleanup, facade>>
    /\ pc' = "finally_docker"
    /\ UNCHANGED <<config, wait, dustStatus, calledUnsynced, reg, ctx, rli, docker, thrown,
                   logs, task, round, ops, now, zeroFee>>
    /\ UNCHANGED <<keys, missed, votingVars>>

\* finally: env.down() if the docker environment was started
finallyDockerDown ==
    /\ pc = "finally_docker"
    /\ IF docker = "up"
       THEN /\ cleanup' = Append(cleanup, "docker")
            /\ \E ok \in BOOLEAN : docker' = IF ok THEN "down" ELSE docker
       ELSE UNCHANGED <<cleanup, docker>>
    /\ pc' = "done"
    /\ UNCHANGED <<config, wait, dustStatus, calledUnsynced, reg, ctx, facade, rli, thrown,
                   logs, task, round, ops, now, zeroFee>>
    /\ UNCHANGED <<keys, missed, votingVars>>

\* ---------------------------------------------------------- specification
Next ==
    \/ WalletEmit
    \/ Tick
    \/ WalletStateError
    \/ RunStart
    \/ BuildWalletStandalone
    \/ BuildWalletChoice
    \/ initWalletWithSeed
    \/ waitForSync
    \/ displayWalletBalances
    \/ waitForFunds
    \/ displayWalletBalancesAgain
    \/ buildWalletRejected
    \/ handleDustRegistration
    \/ syncedWaitRejected
    \/ askRegister
    \/ registerForDustProduction
    \/ registerNightUtxos
    \/ finalizeTransaction
    \/ submitRegistration
    \/ dustWait
    \/ fallbackDustWait
    \/ registrationWaitRejected
    \/ configureProviders
    \/ deployOrJoin
    \/ mainLoop
    \/ displayCounterValue
    \/ BalanceSettle
    \/ SignSettle
    \/ FinalizeSettle
    \/ submitTx
    \/ SubmitSettle
    \/ Confirm
    \/ awaitContractTx
    \/ finallyCloseReadline
    \/ finallyCloseWallet
    \/ finallyDockerDown

Spec == Init /\ [][Next]_vars

\* ------------------------------------- the provider under concurrent callers
\* createWalletAndMidnightProvider has returned the provider object; any
\* caller may invoke its balanceTx / submitTx, and a call suspended at an
\* await interleaves with the other caller's.
InitProvider ==
    /\ config = [standalone |-> FALSE, docker |-> FALSE, envMnemonic |-> FALSE]
    /\ pc = "provider"
    /\ wait = NoWait
    /\ dustStatus = NoStatus
    /\ calledUnsynced = FALSE
    /\ reg = NoReg
    /\ ctx = TRUE
    /\ facade = "started"
    /\ rli = "open"
    /\ docker = "none"
    /\ thrown = "none"
    /\ cleanup = <<>>
    /\ logs = {}
    /\ task = [c \in Callers |-> IdleTask]
    /\ round = 0
    /\ ops = 0
    /\ now = 0
    /\ zeroFee = FALSE
    /\ keys = "held"
    /\ missed = FALSE
    /\ VotingOff

\* a caller with no call running invokes balanceTx
Invoke ==
    /\ pc = "provider"
    /\ \E c \in Callers :
        /\ task[c].pc \in {"idle", "confirmed", "failed"}
        /\ balanceTx(c, "increment")
    /\ UNCHANGED <<config, pc, wait, dustStatus, calledUnsynced, reg, ctx, facade, rli,
                   docker, thrown, cleanup, logs, round>>
    /\ UNCHANGED <<keys, missed, votingVars>>

NextProvider ==
    \/ Invoke
    \/ BalanceSettle
    \/ SignSettle
    \/ FinalizeSettle
    \/ submitTx
    \/ SubmitSettle
    \/ Confirm

SpecProvider == InitProvider /\ [][NextProvider]_vars

\* ------------------------------------------------------------- fairness
\* The event loop runs every continuation whose promise has settled, the
\* timers fire, and the wallet's local computations end.  Nothing makes the
\* wallet stream emit, the user answer or the network respond.
ProgramStep ==
    \/ RunStart
    \/ BuildWalletStandalone
    \/ initWalletWithSeed
    \/ waitForSync
    \/ displayWalletBalances
    \/ waitForFunds
    \/ displayWalletBalancesAgain
    \/ buildWalletRejected
    \/ handleDustRegistration
    \/ syncedWaitRejected
    \/ registerForDustProduction
    \/ dustWait
    \/ fallbackDustWait
    \/ registrationWaitRejected
    \/ configureProviders
    \/ submitTx
    \/ awaitContractTx
    \/ finallyCloseReadline
    \/ finallyCloseWallet
    \/ finallyDockerDown

WalletLocalStep ==
    \/ registerNightUtxos
    \/ finalizeTransaction
    \/ BalanceSettle
    \/ SignSettle
    \/ FinalizeSettle

SpecFair ==
    /\ Init
    /\ [][Next]_vars
    /\ WF_vars(Tick)
    /\ WF_vars(ProgramStep)
    /\ WF_vars(WalletLocalStep)

\* ================================================================ claims
StageNames(t) == [i \in DOMAIN t.trace |-> t.trace[i].stage]
PipelineOrder == <<"balance", "sign", "finalize", "submit">>
StageInputs == <<"draft", "recipe", "signed", "finalized">>
InFlight(t) ==
    t.pc \in {"balancing", "signing", "finalizing", "balanced", "submitting", "submitted"}

\* C1: checkDustStatus returns hasSufficientDust = true exactly when the dust
\* balance of the synced snapshot it read is > 0: false for balance 0 and for
\* a snapshot without dust state, true for the smallest balance 1.
C1_HasSufficientDustIffPositive ==
    [][(pc = "checkDustStatus" /\ pc' \in {"askRegister", "configureProviders"})
        => /\ dustStatus'.known
           /\ dustStatus'.hasSufficientDust <=> (wait.snap.dustPresent /\ wait.snap.dust >= 1)
           /\ ~wait.snap.dustPresent => dustStatus'.dustBalance = 0]_vars

C1_Witness ==
    /\ dustStatus.known
    /\ dustStatus.dustBalance = 1
    /\ dustStatus.hasSufficientDust

\* C2: in a session whose resolved dust balance is 0 and stays 0, no contract
\* transaction (deploy, increment) is ever handed to balanceTx.
C2_NoBalancingWithoutFee ==
    zeroFee => \A c \in Callers : task[c].pc = "idle"

\* C3: two balanceTx / submitTx invocations on the same wallet context are
\* serialized: one is in flight (balancing .. awaiting its outcome) at a time.
C3_SubmissionsSerialized ==
    \A c1, c2 \in Callers :
        c1 # c2 => ~(InFlight(task[c1]) /\ InFlight(task[c2]))

\* C4: one call of registerForDustProduction calls submitTransaction at most
\* once on every path, and one pipeline run submits at most once.
C4_SubmitAtMostOnce ==
    /\ reg.submits <= 1
    /\ \A c \in Callers :
        Cardinality({i \in DOMAIN task[c].trace : task[c].trace[i].stage = "submit"}) <= 1

C4_Witness ==
    /\ reg.result = "false"
    /\ reg.submits = 1

\* C5: a failure of a stage of balanceTx is terminal: no later stage runs, the
\* failed stage is not run again, and the caller gets the error (in the CLI:
\* thrown through mainLoop to run's catch).
C5_FailureIsTerminal ==
    [][/\ \A c \in Callers :
            task'[c].error # NoError =>
                /\ task'[c].pc = "failed"
                /\ task'[c].error.stage \in {"balance", "sign", "finalize"} =>
                    /\ StageNames(task'[c]) = SubSeq(PipelineOrder, 1, Len(task'[c].trace))
                    /\ task'[c].trace[Len(task'[c].trace)].stage = task'[c].error.stage
       /\ (task[CliCaller].pc = "failed" /\ pc' # pc) =>
                (pc' = "finally_rli" /\ thrown' # "none")]_vars

C5_Witness ==
    /\ pc = "awaitIncrement"
    /\ task[CliCaller].pc = "failed"
    /\ task[CliCaller].error.stage = "sign"

\* C6: every transaction the program submits went through the stages balance,
\* sign, finalize, submit, in this order, each once and each on the output of
\* the stage before it: the contract transactions of the provider's callers,
\* and the dust registration transaction.
C6_StagesInOrder ==
    /\ reg.submits > 0 => reg.stages = PipelineOrder
    /\ \A c \in Callers :
        LET t == task[c] IN
        /\ StageNames(t) = SubSeq(PipelineOrder, 1, Len(t.trace))
        /\ \A i \in DOMAIN t.trace : t.trace[i].input = Val(StageInputs[i], t.run)
        /\ t.pc \in {"submitting", "submitted", "confirmed"} => Len(t.trace) = 4

\* C7: balanceTx uses the ttl now + 30 minutes when no ttl is supplied, and
\* the supplied ttl unchanged otherwise.
C7_TtlDefault ==
    [][\A c \in Callers :
        (task[c].pc # "balancing" /\ task'[c].pc = "balancing") =>
            task'[c].ttl = IF task'[c].ttlArg = <<>>
                           THEN now' + 30 * 60 * 1000
                           ELSE task'[c].ttlArg[1]]_vars

C7_Witness ==
    /\ task[CliCaller].pc = "balancing"
    /\ task[CliCaller].ttlArg = <<0>>
    /\ now = ClockStepMs
    /\ task[CliCaller].ttl = 0

\* C8: a contract transaction started with fee capacity > 0 eventually
\* reaches a terminal outcome (confirmed, or failed with its error).
C8_EventuallyTerminal ==
    (task[CliCaller].pc = "balancing" /\ task[CliCaller].dustAtCall > 0)
        ~> (task[CliCaller].pc \in {"confirmed", "failed"})

\* C9: each wait (for a synced snapshot, for funds, for dust after the
\* registration) ends: with the awaited snapshot or with a timeout.
C9_WaitsBounded ==
    \A k \in {"waitForSync", "waitForFunds", "dustWait", "fallbackDustWait"} :
        (pc = k) ~> (pc # k)

\* C10: checkDustStatus called while the wallet is unsynced fails
\* with NotSynced, so such a call never returns a DustStatus.
C10_FailsFastWhenUnsynced ==
    calledUnsynced => ~dustStatus.known

\* C12: two balanceTx calls with the same draft, the same funding
\* snapshot and the same (or no) ttl argument hand the balancer the same TTL.
C12_BalanceIdempotent ==
    \A c, d \in Callers :
        (/\ task[c].run # 0 /\ task[d].run # 0
         /\ task[c].kind = task[d].kind
         /\ task[c].dustAtCall = task[d].dustAtCall
         /\ task[c].ttlArg = task[d].ttlArg)
            => task[c].ttl = task[d].ttl

\* C13: when the session has closed, the key material of its wallet context
\* has been zeroed.
C13_KeysZeroedOnClose ==
    (pc = "done" /\ ctx) => keys = "zeroed"

RegistrationPcs ==
    {"registerForDustProduction", "registerNightUtxos", "finalizeTransaction",
     "submitRegistration", "dustWait", "fallbackDustWait"}
MenuPcs == {"deployOrJoin", "mainLoop", "displayCounterValue", "awaitDeploy", "awaitIncrement"}

\* C14: in a counter-CLI session at most one operation on the wallet (dust
\* registration, deploy, increment) is started and not yet returned, and while
\* one is, run is suspended on it and asks no menu question.
C14_OneOperationAtATime ==
    /\ Cardinality({c \in Callers : task[c].pc # "idle"})
         + (IF pc \in RegistrationPcs THEN 1 ELSE 0) <= 1
    /\ (\E c \in Callers : task[c].pc # "idle") => pc \in {"awaitDeploy", "awaitIncrement"}
    /\ task[CliCaller].kind = "deploy" => pc = "awaitDeploy"
    /\ task[CliCaller].kind = "increment" => pc = "awaitIncrement"

C14_Witness ==
    /\ pc = "awaitIncrement"
    /\ task[CliCaller].pc = "submitted"
    /\ task[CliCaller].run = 2

\* C20: the contract menu is reached only through configureProviders, which
\* completes only on a snapshot with isSynced = true, and balanceTx is called
\* only from the contract menu: every balanceTx follows an observed synced state.
C20_BalanceOnlyAfterSync ==
    [][/\ (pc' \in MenuPcs /\ pc \notin MenuPcs) =>
            /\ pc = "configureProviders"
            /\ wait.kind = "synced"
            /\ wait.status = "resolved"
            /\ wait.snap.isSynced
       /\ \A c \in Callers :
            (task'[c].run # task[c].run /\ task'[c].run # 0) =>
                pc \in {"deployOrJoin", "mainLoop"}]_vars

C20_Witness ==
    /\ pc = "awaitDeploy"
    /\ task[CliCaller].pc = "balancing"
    /\ task[CliCaller].run = 1

\* ================================================= claims: dust registration
Classified139 == {Msg139, MsgInvalid}

\* C21: in registerForDustProduction an error of the submission or of the dust
\* wait whose message contains '139' or 'Invalid Transaction' is not thrown:
\* the 30 s wait for a positive dust balance follows, and the call returns
\* true if dust was observed and false otherwise; any other error, the 60 s
\* timeout of the dust wait included, is rethrown as it was caught.
C21_ClassifiedErrorsFallBack ==
    [][/\ (pc' = "fallbackDustWait" /\ pc # "fallbackDustWait") =>
            /\ pc \in {"submitRegistration", "dustWait"}
            /\ reg'.error \in Classified139
            /\ reg'.result = "none"
            /\ wait'.kind = "fallback"
            /\ wait'.status = "pending" => wait'.timeoutLeft = Ticks(FallbackTimeoutMs)
       /\ (pc = "fallbackDustWait" /\ pc' # "fallbackDustWait") =>
            /\ reg'.result = IF wait.status = "resolved" THEN "true" ELSE "false"
            /\ wait.status = "resolved" => DustBalanceOf(wait.snap) > 0
       /\ (pc \in {"submitRegistration", "dustWait"} /\ reg'.result = "thrown") =>
            /\ reg'.error \notin Classified139
            /\ reg'.error # <<>>
       /\ (pc = "dustWait" /\ wait.status = "timedout" /\ pc' # "dustWait") =>
            /\ reg'.result = "thrown"
            /\ reg'.error = MsgTimeout]_vars

C21_Witness ==
    /\ reg.result = "true"
    /\ reg.error = Msg139
    /\ reg.submits = 1

\* C22: with no available unshielded coin in the synced snapshot,
\* registerForDustProduction returns false, and no registration transaction was
\* built, finalized or submitted.
C22_NoCoinsReturnsFalse ==
    [][(/\ pc = "registerForDustProduction"
        /\ wait.status = "resolved"
        /\ Len(wait.snap.coins) = 0
        /\ pc' # "registerForDustProduction") =>
            /\ reg'.result = "false"
            /\ reg'.submits = 0
            /\ reg'.error = <<>>
            /\ pc' = "configureProviders"]_vars

C22_Witness ==
    /\ pc = "configureProviders"
    /\ reg.result = "false"
    /\ reg.submits = 0

\* C23: registerForDustProduction returns true only from one of its two dust
\* waits, resolved by a snapshot with dust balance > 0, after the registration
\* transaction was handed to submitTransaction; the 30 s wait is entered only
\* after an error classified as 139 / Invalid Transaction.
C23_TrueOnlyAfterDustObserved ==
    [][(reg'.result = "true" /\ reg.result # "true") =>
            /\ pc \in {"dustWait", "fallbackDustWait"}
            /\ wait.status = "resolved"
            /\ DustBalanceOf(wait.snap) > 0
            /\ reg.submits = 1
            /\ pc = "dustWait" => reg.error = <<>>
            /\ pc = "fallbackDustWait" => reg.error \in Classified139]_vars

C23_Witness ==
    /\ reg.result = "true"
    /\ reg.error = <<>>
    /\ reg.submits = 1

\* C29: 'Dust registration successful!' is reported only when
\* registerForDustProduction returned true, never when it returned false or threw.
C29_SuccessOnlyWhenTrue ==
    reg.result \in {"false", "thrown"} => "Dust registration successful!" \notin logs

\* ======================================================== claims: run's exit
ExpectedCleanup ==
    <<"rli">> \o (IF ctx THEN <<"wallet">> ELSE <<>>)
              \o (IF docker # "none" THEN <<"docker">> ELSE <<>>)

\* C26: whatever ended the try block of the counter CLI's run (exit at a menu,
\* an Error, a thrown non-Error), the cleanup steps attempted are: close
\* readline, then close the wallet if a WalletContext was built, then bring the
\* docker environment down if it was started, and a failed step does not stop
\* the later ones.
C26_CleanupOrder ==
    /\ pc = "done" => cleanup = ExpectedCleanup
    /\ pc = "finally_docker" => cleanup = SubSeq(ExpectedCleanup, 1, Len(cleanup))
    /\ pc = "finally_wallet" => cleanup = <<"rli">>

C26_Witness ==
    /\ pc = "done"
    /\ thrown = "other"
    /\ rli = "open"
    /\ facade = "started"
    /\ cleanup = <<"rli", "wallet", "docker">>

\* C28: every wallet facade started in a counter CLI session has had stop
\* called on it by the time run returns, also when wallet construction failed
\* after facade.start.
C28_StartedFacadeStopped ==
    (pc = "done" /\ facade = "started") => \E i \in DOMAIN cleanup : cleanup[i] = "wallet"

\* C30: a synced snapshot emitted while waitForSync is pending completes it,
\* and a synced snapshot with a positive balance emitted while waitForFunds is
\* pending completes it, wherever the emission falls relative to the throttle
\* window, also when it is the last snapshot emitted: a qualifying snapshot
\* that stays the latest emission is followed by the end of the wait.
C30_QualifyingEmissionCompletes ==
    \A k \in {"waitForSync", "waitForFunds"} :
        (pc = k /\ missed) ~> (pc # k \/ ~missed)

\* =========================================================== the voting CLI
counterVars == <<config, pc, wait, dustStatus, calledUnsynced, reg, ctx, facade, rli, docker,
                 thrown, cleanup, logs, task, round, ops, now, zeroFee, keys, missed>>

AlreadyVotedMsg == "You have already voted in this poll!"
NotFoundMsg == "contract not found"
InvalidAddressMsg == "invalid contract address"
FailedMsg == "request failed"

\* what the user may type at join: the poll's three addresses, an empty
\* field, the same address twice, a string that is no address
JoinInputs ==
    {<<"a1", "a2", "a3">>, <<EmptyAddress, "a2", "a3">>, <<"a1", "a1", "a3">>,
     <<BadAddress, "a2", "a3">>}

\* ------------------------------------------------------------ voting-api.ts
deployVotingPollSwapped(deployed) ==
    [yes |-> deployed[2], no |-> deployed[1], abstain |-> deployed[3],
     hasVoted |-> FALSE, myVote |-> "null"]

deployVotingPoll(deployed) ==
    [yes |-> deployed[1], no |-> deployed[2], abstain |-> deployed[3],
     hasVoted |-> FALSE, myVote |-> "null"]

joinVotingPoll(yesAddress, noAddress, abstainAddress) ==
    [yes |-> yesAddress, no |-> noAddress, abstain |-> abstainAddress,
     hasVoted |-> FALSE, myVote |-> "null"]

\* the switch of castVote: the address field of the chosen option
AddressOf(vs, vote) ==
    CASE vote = "yes" -> vs.yes
      [] vote = "no" -> vs.no
      [] vote = "abstain" -> vs.abstain

castVoteCheckWithoutHasVoted(vs, vote) ==
    IF ~Truthy(AddressOf(vs, vote)) THEN NotFoundMsg
    ELSE "none"

\* the checks of castVote before it contacts a contract: the error thrown, or none
castVoteCheck(vs, vote) ==
    IF vs.hasVoted THEN AlreadyVotedMsg
    ELSE IF ~Truthy(AddressOf(vs, vote)) THEN NotFoundMsg
    ELSE "none"

\* the state castVote returns: { ...votingState, hasVoted: true, myVote: vote }
castVoteReturn(vs, vote) == [vs EXCEPT !.hasVoted = TRUE, !.myVote = vote]

\* getCounterLedgerState: the round of the contract's ledger state, or null
\* (NoContract) if queryContractState finds no contract
getCounterLedgerState(l, address) == l[address]

\* count ?? 0n
OrZero(count) == IF count = NoContract THEN 0 ELSE count

TotalWithoutAbstain(yes, no, abstain) == yes + no

\* const total = yes + no + abstain
Total(yes, no, abstain) == yes + no + abstain

getVotingResultsReturn(c) ==
    [known |-> TRUE, yes |-> c.yes, no |-> c.no, abstain |-> c.abstain,
     total |-> Total(c.yes, c.no, c.abstain)]

\* ------------------------------------------------------------ voting-cli.ts
\* an error thrown inside mainLoop's try is caught and its message logged
CaughtInMainLoop(msg) ==
    /\ vlog' = msg
    /\ vpc' = "menu"
    /\ call' = NoCall

\* a provider call rejected: mainLoop's catch logs the message if the value
\* is an Error, and logs nothing if it is not
ProviderThrew ==
    \E isError \in BOOLEAN :
        /\ vlog' = IF isError THEN FailedMsg ELSE "none"
        /\ vpc' = "menu"
        /\ call' = NoCall

\* run up to buildWallet, called with or without dockerEnv and with a
\* StandaloneConfig or not: the docker environment is brought up if given and
\* the ports of a StandaloneConfig are mapped; when dockerEnv.up() or
\* mapContainerPort throws, run rejects at once
votingRunStart ==
    /\ vpc = "run"
    /\ \E dockerEnv \in BOOLEAN, standalone \in BOOLEAN :
        IF ~dockerEnv
        THEN vrun' = NoVotingRun /\ vpc' = "buildWallet"
        ELSE \/ /\ vrun' = [NoVotingRun EXCEPT !.docker = "up"]
                /\ vpc' = "buildWallet"
             \/ /\ vrun' = NoVotingRun
                /\ vpc' = "rejected"
             \/ /\ standalone
                /\ vrun' = [NoVotingRun EXCEPT !.docker = "up"]
                /\ vpc' = "rejected"
    /\ UNCHANGED <<votingState, call, results, vlog, ledger, myVotes, sessions, counterVars>>

\* const wallet = await buildWallet(config, rli), before run's try: a wallet,
\* null (exit chosen), or a rejection, which leaves run at once; with a wallet,
\* run enters the try and awaits api.configureProviders
votingBuildWallet ==
    /\ vpc = "buildWallet"
    /\ \/ /\ vrun' = [vrun EXCEPT !.wallet = TRUE]
          /\ vpc' = "configureProviders"
       \/ /\ vpc' = "finally"
          /\ UNCHANGED vrun
       \/ /\ vpc' = "crashed"
          /\ UNCHANGED vrun
    /\ UNCHANGED <<votingState, call, results, vlog, ledger, myVotes, sessions, counterVars>>

\* await api.configureProviders(wallet, config) settled: mainLoop asks the
\* deploy-or-join question, or the rejection goes to run's catch and finally
votingConfigureProviders ==
    /\ vpc = "configureProviders"
    /\ \E configured \in BOOLEAN :
        vpc' = IF configured THEN "deployOrJoin" ELSE "finally"
    /\ UNCHANGED <<votingState, call, results, vlog, ledger, myVotes, sessions, vrun,
                   counterVars>>

\* deployOrJoin: 1 deploys a poll, 2 joins one, 3 exits, else the question again
votingDeployOrJoin ==
    /\ vpc = "deployOrJoin"
    /\ \/ /\ \A a \in AddressSet : ledger[a] = NoContract
          /\ vpc' = "deployContract"
          /\ call' = [NoCall EXCEPT !.op = "deployVotingPoll"]
          /\ UNCHANGED votingState
       \/ /\ \E inp \in JoinInputs :
                votingState' = joinVotingPoll(inp[1], inp[2], inp[3])
          /\ vpc' = "menu"
          /\ UNCHANGED call
       \/ /\ vpc' = "finally"
          /\ UNCHANGED <<votingState, call>>
       \/ UNCHANGED <<vpc, votingState, call>>
    /\ UNCHANGED <<results, vlog, ledger, myVotes, sessions, vrun, counterVars>>

\* one deployContract of deployVotingPoll settled: the next one, the poll's
\* state after the third, or the error thrown through mainLoop to run's catch
deployContract ==
    /\ vpc = "deployContract"
    /\ \E ok \in BOOLEAN :
        IF ok
        THEN LET a == Addresses[Len(call.deployed) + 1]
                 deployed == Append(call.deployed, a)
             IN /\ ledger' = [ledger EXCEPT ![a] = 0]
                /\ IF Len(deployed) = Len(Options)
                   THEN /\ votingState' = deployVotingPoll(deployed)
                        /\ vpc' = "menu"
                        /\ call' = NoCall
                   ELSE /\ call' = [call EXCEPT !.deployed = deployed]
                        /\ UNCHANGED <<vpc, votingState>>
        ELSE /\ vpc' = "finally"
             /\ call' = NoCall
             /\ UNCHANGED <<ledger, votingState>>
    /\ UNCHANGED <<results, vlog, myVotes, sessions, vrun, counterVars>>

\* mainLoop's question: 1, 2, 3 cast a vote, 4 shows the results, 5 exits
votingMainLoop ==
    /\ vpc = "menu"
    /\ \/ \E i \in DOMAIN Options :
            LET vote == Options[i]
                err == castVoteCheck(votingState, vote)
            IN IF err # "none"
               THEN CaughtInMainLoop(err)
               ELSE /\ vpc' = "findDeployedContract"
                    /\ call' = [NoCall EXCEPT !.op = "castVote", !.vote = vote,
                                              !.address = AddressOf(votingState, vote)]
                    /\ vlog' = "none"
       \/ /\ vpc' = "queryYes"
          /\ call' = [NoCall EXCEPT !.op = "getVotingResults"]
          /\ vlog' = "none"
       \/ /\ vpc' = "finally"
          /\ UNCHANGED <<call, vlog>>
       \/ /\ vlog' = "none"
          /\ UNCHANGED <<vpc, call>>
    /\ UNCHANGED <<votingState, results, ledger, myVotes, sessions, vrun, counterVars>>

\* castVote: findDeployedContract settled
findDeployedContract ==
    /\ vpc = "findDeployedContract"
    /\ \/ /\ call.address \in AddressSet
          /\ ledger[call.address] # NoContract
          /\ vpc' = "increment"
          /\ UNCHANGED <<call, vlog>>
       \/ ProviderThrew
    /\ UNCHANGED <<votingState, results, ledger, myVotes, sessions, vrun, counterVars>>

VoteAppliedToAll(address) ==
    /\ ledger' = [a \in AddressSet |->
                    IF ledger[a] = NoContract THEN NoContract ELSE ledger[a] + 1]

\* the increment circuit of the contract at address
VoteApplied(address) ==
    /\ ledger' = [ledger EXCEPT ![address] = @ + 1]

\* castVote: contract.callTx.increment() settled; on success the vote is on
\* the chain and castVote returns the new state
castVote ==
    /\ vpc = "increment"
    /\ \/ /\ \A a \in AddressSet : ledger[a] < MaxVotes
          /\ VoteApplied(call.address)
          /\ myVotes' = myVotes + 1
          /\ votingState' = castVoteReturn(votingState, call.vote)
          /\ vpc' = "menu"
          /\ call' = NoCall
          /\ UNCHANGED vlog
       \/ /\ ProviderThrew
          /\ UNCHANGED <<ledger, myVotes, votingState>>
    /\ UNCHANGED <<results, sessions, vrun, counterVars>>

QueryPcs == <<"queryYes", "queryNo", "queryAbstain">>
QueryPcSet == {QueryPcs[i] : i \in DOMAIN QueryPcs}

QueriedAndRecorded(i, count) ==
    /\ call' = [call EXCEPT ![Options[i]] = count]
    /\ votingState' = [votingState EXCEPT !.hasVoted = TRUE]
    /\ IF i < Len(Options)
       THEN vpc' = QueryPcs[i + 1] /\ UNCHANGED results
       ELSE vpc' = "displayVotingResults" /\ results' = getVotingResultsReturn(call')
    /\ UNCHANGED vlog

\* getVotingResults: the count of option i is known; the next option is
\* queried, or the results are returned
Queried(i, count) ==
    /\ call' = [call EXCEPT ![Options[i]] = count]
    /\ votingState' = votingState
    /\ IF i < Len(Options)
       THEN vpc' = QueryPcs[i + 1] /\ UNCHANGED results
       ELSE vpc' = "displayVotingResults" /\ results' = getVotingResultsReturn(call')
    /\ UNCHANGED vlog

\* getVotingResults: the query of one option.  A falsy address is skipped
\* (count 0); assertIsContractAddress throws on a string that is no address;
\* the indexer answers with the contract's state, with null, or fails
getVotingResults ==
    /\ \E i \in DOMAIN Options :
        /\ vpc = QueryPcs[i]
        /\ LET address == AddressOf(votingState, Options[i]) IN
           IF ~Truthy(address)
           THEN Queried(i, 0)
           ELSE IF address \notin AddressSet
           THEN /\ CaughtInMainLoop(InvalidAddressMsg)
                /\ UNCHANGED <<results, votingState>>
           ELSE \/ Queried(i, OrZero(getCounterLedgerState(ledger, address)))
                \/ /\ ProviderThrew
                   /\ UNCHANGED <<results, votingState>>
    /\ UNCHANGED <<ledger, myVotes, sessions, vrun, counterVars>>

\* displayVotingResults printed the results: the menu again
displayVotingResults ==
    /\ vpc = "displayVotingResults"
    /\ vpc' = "menu"
    /\ results' = NoResults
    /\ call' = NoCall
    /\ UNCHANGED <<votingState, vlog, ledger, myVotes, sessions, vrun, counterVars>>

\* another participant's vote reaches one of the contracts
OtherVote ==
    /\ vpc \notin {"off", "run", "buildWallet", "closed", "crashed", "rejected"}
    /\ \E a \in AddressSet :
        /\ ledger[a] # NoContract
        /\ ledger[a] < MaxVotes
        /\ ledger' = [ledger EXCEPT ![a] = @ + 1]
    /\ UNCHANGED <<vpc, votingState, call, results, vlog, myVotes, sessions, vrun, counterVars>>

\* the cleanup steps run's finally attempts, each in a try of its own
votingCleanup(r) ==
    <<"rli">> \o (IF r.wallet THEN <<"wallet">> ELSE <<>>)
              \o (IF r.docker = "up" THEN <<"docker">> ELSE <<>>)

\* run's finally: rli.close(), wallet.close() if a wallet was built, and, if
\* the environment was started, env.down() is called and awaited; without an
\* environment the session ends here, and with it the in-memory voting state
votingFinally ==
    /\ vpc = "finally"
    /\ vrun' = [vrun EXCEPT !.cleanup = votingCleanup(vrun)]
    /\ IF vrun.docker = "up"
       THEN /\ vpc' = "dockerDown"
            /\ UNCHANGED <<votingState, vlog>>
       ELSE /\ vpc' = "closed"
            /\ votingState' = NoVotingState
            /\ vlog' = "none"
    /\ UNCHANGED <<call, results, ledger, myVotes, sessions, counterVars>>

\* await env.down() settled (resolved, or rejected and logged): run ends, and
\* with the session its in-memory voting state
votingDockerDown ==
    /\ vpc = "dockerDown"
    /\ vpc' = "closed"
    /\ votingState' = NoVotingState
    /\ vlog' = "none"
    /\ UNCHANGED <<call, results, ledger, myVotes, sessions, vrun, counterVars>>

\* the participant runs the voting CLI again with the same wallet
votingRun ==
    /\ vpc \in {"closed", "crashed", "rejected"}
    /\ sessions < MaxSessions
    /\ sessions' = sessions + 1
    /\ vpc' = "run"
    /\ vrun' = NoVotingRun
    /\ UNCHANGED <<votingState, call, results, vlog, ledger, myVotes, counterVars>>

\* the first voting session, on a chain without the poll or with the poll
\* deployed by someone else
InitVoting ==
    /\ config = [standalone |-> FALSE, docker |-> FALSE, envMnemonic |-> FALSE]
    /\ pc = "voting"
    /\ wait = NoWait
    /\ dustStatus = NoStatus
    /\ calledUnsynced = FALSE
    /\ reg = NoReg
    /\ ctx = FALSE
    /\ facade = "none"
    /\ rli = "open"
    /\ docker = "none"
    /\ thrown = "none"
    /\ cleanup = <<>>
    /\ logs = {}
    /\ task = [c \in Callers |-> IdleTask]
    /\ round = 0
    /\ ops = 0
    /\ now = 0
    /\ zeroFee = FALSE
    /\ keys = "none"
    /\ missed = FALSE
    /\ vpc = "run"
    /\ vrun = NoVotingRun
    /\ votingState = NoVotingState
    /\ call = NoCall
    /\ results = NoResults
    /\ vlog = "none"
    /\ ledger \in {[a \in AddressSet |-> NoContract], [a \in AddressSet |-> 0]}
    /\ myVotes = 0
    /\ sessions = 1

NextVoting ==
    \/ votingRunStart
    \/ votingBuildWallet
    \/ votingConfigureProviders
    \/ votingDeployOrJoin
    \/ deployContract
    \/ votingMainLoop
    \/ findDeployedContract
    \/ castVote
    \/ getVotingResults
    \/ displayVotingResults
    \/ OtherVote
    \/ votingFinally
    \/ votingDockerDown
    \/ votingRun

SpecVoting == InitVoting /\ [][NextVoting]_vars

\* the two programs of the repository: a behaviour is a session of the counter
\* CLI or a sequence of sessions of the voting CLI
InitAll == Init \/ InitVoting

NextAll == Next \/ NextVoting

SpecAll == InitAll /\ [][NextAll]_vars

\* ==================================================== claims on the voting CLI
\* C15: over any sequence of sessions, joins and castVote calls, a participant
\* submits at most one vote increment to the poll's contracts.
C15_OneVotePerParticipant ==
    myVotes <= 1

\* C16: the step in which a castVote succeeds adds one to the counter of the
\* contract at the chosen option's address, changes no other contract's
\* counter, and records the chosen option as myVote.
C16_VoteIncrementsChosenOnly ==
    [][myVotes' # myVotes =>
        LET chosen == AddressOf(votingState, call.vote) IN
        /\ vpc = "increment"
        /\ myVotes' = myVotes + 1
        /\ ledger'[chosen] = ledger[chosen] + 1
        /\ \A a \in AddressSet \ {chosen} : ledger'[a] = ledger[a]
        /\ votingState'.hasVoted
        /\ votingState'.myVote = call.vote]_vars

C16_Witness ==
    /\ myVotes = 1
    /\ votingState.myVote = "no"
    /\ votingState.no = "a2"
    /\ ledger["a1"] = 0
    /\ ledger["a2"] = 1
    /\ ledger["a3"] = 0

\* C17: once hasVoted is true in a session, the voting state (hasVoted,
\* myVote, addresses) stays as it is until the session ends, every castVote
\* is refused with 'You have already voted in this poll!' before any contract
\* is contacted, and no further vote is submitted.
C17_VoteCannotBeChanged ==
    [][votingState.hasVoted =>
        /\ \A i \in DOMAIN Options :
            castVoteCheck(votingState, Options[i]) = "You have already voted in this poll!"
        /\ vpc' \notin {"findDeployedContract", "increment"}
        /\ myVotes' = myVotes
        /\ vpc' # "closed" => votingState' = votingState]_vars

C17_Witness ==
    /\ votingState.hasVoted
    /\ votingState.myVote = "yes"
    /\ vlog = AlreadyVotedMsg
    /\ vpc = "menu"

\* C18: getVotingResults returns total = yes + no + abstain of the counts it
\* returns; each count is what the option's own query read (0 for a contract
\* without state), and an option with a missing address is not queried and
\* counts 0.
C18_TotalIsSumOfQueries ==
    [][/\ results'.known =>
            /\ results'.total = results'.yes + results'.no + results'.abstain
            /\ \A i \in DOMAIN Options :
                ~Truthy(AddressOf(votingState', Options[i])) => results'[Options[i]] = 0
       /\ \A i \in DOMAIN Options :
            (vpc = QueryPcs[i] /\ vpc' \notin {vpc, "menu"}) =>
                LET address == AddressOf(votingState, Options[i]) IN
                call'[Options[i]] =
                    IF address \in {NullAddress, EmptyAddress} THEN 0
                    ELSE IF ledger[address] = NoContract THEN 0
                    ELSE ledger[address]]_vars

C18_Witness ==
    /\ results.known
    /\ votingState.yes = EmptyAddress
    /\ results.yes = 0
    /\ results.no = 1
    /\ results.abstain = 1
    /\ results.total = 2

\* C19: the steps of the read-only operations start no transaction and leave
\* the contract counters, the voting state, the wallet and its keys unchanged:
\* in the voting CLI getVotingResults and displayVotingResults with their
\* getCounterLedgerState queries, in the counter CLI checkDustStatus,
\* displayWalletBalances and displayCounterValue with its getCounterLedgerState.
C19_QueriesAreReadOnly ==
    [][/\ ((\/ vpc \in QueryPcSet \cup {"displayVotingResults"}
            \/ vpc = "menu" /\ vpc' = "queryYes") /\ vpc' # vpc) =>
            UNCHANGED <<votingState, ledger, myVotes, task, ops, round, keys>>
       /\ ((\/ pc \in {"checkDustStatus", "displayWalletBalances",
                        "displayWalletBalancesAgain", "displayCounterValue"}
            \/ pc = "mainLoop" /\ pc' = "displayCounterValue") /\ pc' # pc) =>
            UNCHANGED <<task, ops, round, reg, facade, keys, votingState, ledger, myVotes>>]_vars

\* the counter CLI, after checkDustStatus and displayWalletBalances, with a
\* deployed and once incremented counter, is inside displayCounterValue
C19_Witness ==
    /\ pc = "displayCounterValue"
    /\ round = 1
    /\ ops = 2
    /\ task[CliCaller] = IdleTask
    /\ facade = "started"
    /\ keys = "held"

\* C24: a castVote that fails (no address for the chosen option, contract
\* lookup failure, increment failure) leaves the session's voting state as it
\* was, the error is reported, and the menu comes back; with no address for the
\* chosen option it fails before any contract is contacted.
C24_FailedVoteReported ==
    [][/\ (/\ vpc \in {"findDeployedContract", "increment"}
           /\ vpc' = "menu"
           /\ myVotes' = myVotes) =>
                /\ votingState' = votingState
                /\ ledger' = ledger
                /\ vlog' # "none"
       /\ \A i \in DOMAIN Options :
            (/\ vpc = "menu"
             /\ call'.vote = Options[i]
             /\ ~votingState.hasVoted
             /\ ~Truthy(AddressOf(votingState, Options[i]))) => FALSE
       /\ (vpc = "menu" /\ vlog' # vlog /\ vlog' = NotFoundMsg) =>
                /\ vpc' = "menu"
                /\ votingState' = votingState
                /\ ledger' = ledger]_vars

PollOf(addresses) ==
    [yes |-> addresses[1], no |-> addresses[2], abstain |-> addresses[3],
     hasVoted |-> FALSE, myVote |-> "null"]

\* C25: deployVotingPoll deploys the YES, NO and ABSTAIN contracts in that
\* order, each after the previous one succeeded; it returns a poll state only
\* after the third success, with the three addresses set, hasVoted = false and
\* myVote = null; after a failed deployment no further one is attempted and no
\* poll state is returned.
C25_DeployInOrder ==
    [][/\ vpc = "deployContract" =>
            /\ Len(call.deployed) < Len(Options)
            /\ \A i \in DOMAIN Addresses :
                (ledger[Addresses[i]] # NoContract) <=> (i <= Len(call.deployed))
            /\ votingState = NoVotingState
       /\ \A i \in DOMAIN Addresses :
            (ledger[Addresses[i]] = NoContract /\ ledger'[Addresses[i]] # NoContract) =>
                /\ vpc = "deployContract"
                /\ i = Len(call.deployed) + 1
       /\ (vpc = "deployContract" /\ vpc' = "menu") =>
            /\ Len(call.deployed) = Len(Options) - 1
            /\ votingState' = PollOf(Addresses)
            /\ \A a \in AddressSet : Truthy(a) /\ ledger'[a] # NoContract
       /\ (vpc = "deployContract" /\ vpc' \notin {"deployContract", "menu"}) =>
            /\ vpc' = "finally"
            /\ ledger' = ledger
            /\ votingState' = NoVotingState]_vars

C25_Witness ==
    /\ vpc = "finally"
    /\ votingState = NoVotingState
    /\ ledger["a1"] = 0
    /\ ledger["a2"] = 0
    /\ ledger["a3"] = NoContract

\* C27: on every path by which the voting CLI's run ends after the docker
\* environment was started (where one was given) and the readline interface
\* created, the path on which buildWallet throws included, readline was closed
\* and the docker environment was brought down.
C27_VotingRunCleansUp ==
    (vpc \in {"closed", "crashed"} \/ (vpc = "rejected" /\ vrun.docker = "up")) =>
        /\ \E i \in DOMAIN vrun.cleanup : vrun.cleanup[i] = "rli"
        /\ vrun.docker = "up" => \E i \in DOMAIN vrun.cleanup : vrun.cleanup[i] = "docker"

====
